---- MODULE Spec2Model ----
(***************************************************************************)
(* Model of src/masscreate.py: the batch orchestrator main() and the       *)
(* helpers it drives.  External collaborators (file system, table store,   *)
(* service manager, network interfaces, management API, key generator) are *)
(* state variables plus nondeterministic outcomes of each call.            *)
(***************************************************************************)
EXTENDS Integers, Sequences, FiniteSets, TLC

\* ------------------------------------------------------------------------
\* Bounds of the model
\* ------------------------------------------------------------------------
MaxNum == 2
MaxPeers == 2
MaxRuns == 2

\* ------------------------------------------------------------------------
\* Strings are sequences of one-character strings
\* ------------------------------------------------------------------------
DigitChars == <<"0", "1", "2", "3", "4", "5", "6", "7", "8", "9">>

IsDigitChar(c) == \E d \in 1..10 : DigitChars[d] = c

DigitVal(c) == (CHOOSE d \in 1..10 : DigitChars[d] = c) - 1

\* str.isdigit(): non-empty and every character a digit
isdigit(s) == Len(s) > 0 /\ \A k \in 1..Len(s) : IsDigitChar(s[k])

\* int(s) for a digit string
RECURSIVE int(_)
int(s) == IF s = <<>> THEN 0
          ELSE 10 * int(SubSeq(s, 1, Len(s) - 1)) + DigitVal(s[Len(s)])

\* str(n) for n >= 0
RECURSIVE str(_)
str(n) == IF n < 10 THEN <<DigitChars[n + 1]>>
          ELSE str(n \div 10) \o <<DigitChars[(n % 10) + 1]>>

RECURSIVE Zeros(_)
Zeros(k) == IF k <= 0 THEN <<>> ELSE <<"0">> \o Zeros(k - 1)

\* format_number without the zero padding
format_number_NoPad(num, digits) == str(num)

\* f"{num:0{digits}d}": left-pad with zeros to at least `digits` characters
format_number(num, digits) == Zeros(digits - Len(str(num))) \o str(num)

startswith(s, p) == Len(p) <= Len(s) /\ SubSeq(s, 1, Len(p)) = p

Max(a, b) == IF a >= b THEN a ELSE b

\* ASCII case folding used by SQLite's LIKE
Lower(c) == CASE c = "A" -> "a"
              [] c = "P" -> "p"
              [] c = "W" -> "w"
              [] c = "X" -> "x"
              [] OTHER -> c

\* SQLite  name LIKE pat : % any run, _ any one character, ASCII case-insensitive
RECURSIVE Like(_, _)
Like(s, p) ==
    IF p = <<>> THEN s = <<>>
    ELSE IF Head(p) = "%" THEN Like(s, Tail(p)) \/ (s # <<>> /\ Like(Tail(s), p))
    ELSE /\ s # <<>>
         /\ (Head(p) = "_" \/ Lower(Head(s)) = Lower(Head(p)))
         /\ Like(Tail(s), Tail(p))

\* ------------------------------------------------------------------------
\* Inputs
\* ------------------------------------------------------------------------
APW == <<"A", "P", "W">>
UA == <<"_", "A">>

\* --prefix or the prompt's answer
Prefixes == {<<>>, APW, UA}

\* str(args.start) of a flag, or what is typed at the prompt
NumStrs == {str(n) : n \in 1..MaxNum} \cup {<<"0", "1">>, <<"x">>}

\* [peer.<name>] sections of the ini file; load_config demands at least one
extra_peers == [k \in 1..MaxPeers |-> [name |-> k, public_key |-> "configured",
                                       allowed_ips |-> k]]

\* content of a record that was not written by this program
Manual == [PrivateKey |-> <<0, 0>>, Peers |-> <<>>]

\* tables of the store
DbTables == {APW \o <<"1">>, APW \o <<"2">>, APW \o <<"2", "0">>,
             <<"a", "p", "w", "x">>, <<"X", "A", "1">>, UA \o <<"1">>,
             <<"o", "t", "h", "e", "r">>}

\* response of POST /api/updatePeerSettings as update_wgdashboard_peer sees it
Responses == {"status_true", "status_false", "no_status", "non200",
              "urlerror", "bad_json", "not_object"}

\* timeouts of ensure_service_active
PreTimeout == 10
RegTimeout == 15
Interval == 1

VARIABLES
    pc,               \* position in main()
    args,             \* resolved command line and prompt answers
    runs,             \* number of runs launched
    prev,             \* what the previous run was and how it ended
    outcome,          \* how the run ended
    exit_code,        \* process exit status, -1 while running
    log,              \* external calls of this run, in order
    dirExists,        \* target_dir exists
    files,            \* records in target_dir: set of <<stem, content>>
    dbExists,         \* the store file exists
    db,               \* table -> number of rows
    service,          \* state of the dashboard service
    ifaces,           \* running interfaces
    nkeys,            \* generate_keypair calls of this run
    todo,             \* records delete_existing_configs still has to visit
    restarted,        \* run_pre_creation_cleanup's local
    now,              \* seconds waited inside ensure_service_active
    i,                \* loop variable of the creation / delete loop
    total, created, skipped, errors,
    summary,          \* list of (config_name, interface_pubkey, peers_for_conf)
    sidx, pidx,       \* position in the registration loops
    api_success, api_failed,
    resp,             \* what the last updatePeerSettings call came back with
    before            \* the external state when the process started

vars == <<pc, args, runs, prev, outcome, exit_code, log, dirExists, files,
          dbExists, db, service, ifaces, nkeys, todo, restarted, now, i,
          total, created, skipped, errors, summary, sidx, pidx,
          api_success, api_failed, resp, before>>

persistent == <<dirExists, files, dbExists, db, service, ifaces>>
counters == <<total, created, skipped, errors>>
regvars == <<sidx, pidx, api_success, api_failed, resp>>

External == [dirExists |-> dirExists, files |-> files, dbExists |-> dbExists,
             db |-> db, service |-> service, ifaces |-> ifaces]

\* ------------------------------------------------------------------------
\* Settings derived in main() after validation
\* ------------------------------------------------------------------------
start_num == int(args.start_num_str)
end_num == int(args.end_num_str)
digits == Max(Len(args.start_num_str), Len(args.end_num_str))
config_name(n) == args.prefix \o format_number(n, digits)
names_in_scope == {config_name(n) : n \in start_num..end_num}
names_to_delete == [k \in 1..(end_num - start_num + 1) |-> config_name(start_num + k - 1)]

NoArgs == [prefix |-> <<>>, start_num_str |-> <<>>, end_num_str |-> <<>>,
           api_key |-> FALSE, dry_run |-> FALSE, delete_existing |-> FALSE,
           delete_only |-> FALSE]

NoPrev == [args |-> NoArgs, outcome |-> "none", errors |-> 0]

\* the file system of target_dir
stems(fs) == {f[1] : f \in fs}
exists(fs, n) == n \in stems(fs)
unlink(fs, n) == {f \in fs : f[1] # n}
\* a write_text that leaves the directory as it was
write_text_Lost(fs, n, text) == fs

write_text(fs, n, text) == unlink(fs, n) \cup {<<n, text>>}

Event(op, name) == <<op, name>>
Logged(op) == \E k \in 1..Len(log) : log[k][1] = op
LoggedFor(op, name) == \E k \in 1..Len(log) : log[k] = <<op, name>>

\* the external calls that change something outside the process
MutatingOps == {"mkdir", "unlink", "write", "write_failed", "purge_for",
                "purge_default", "systemctl_stop",
                "systemctl_start", "systemctl_restart", "wg_quick_up",
                "wg_quick_down", "ip_link_delete", "ip_route_delete",
                "updatePeerSettings"}

Mutated == \E k \in 1..Len(log) : log[k][1] \in MutatingOps

\* sys.exit(code), the return of main(), or an uncaught exception
Exit(code, how) ==
    /\ pc' = "done"
    /\ exit_code' = code
    /\ outcome' = how

Running(where) == pc = where /\ exit_code = -1

Init ==
    /\ pc = "idle"
    /\ args = NoArgs
    /\ runs = 0
    /\ prev = NoPrev
    /\ outcome = "none"
    /\ exit_code = -1
    /\ log = <<>>
    /\ dirExists \in BOOLEAN
    /\ files = IF dirExists
               THEN {<<APW \o <<"2">>, Manual>>, <<UA \o <<"1">>, Manual>>}
               ELSE {}
    /\ dbExists = TRUE
    /\ db = [t \in DbTables |-> 1]
    /\ service = "active"
    /\ ifaces = {APW \o <<"2">>}
    /\ nkeys = 0
    /\ todo = {}
    /\ restarted = FALSE
    /\ now = 0
    /\ i = 0
    /\ total = 0 /\ created = 0 /\ skipped = 0 /\ errors = 0
    /\ summary = <<>>
    /\ sidx = 0 /\ pidx = 0
    /\ api_success = 0 /\ api_failed = 0
    /\ resp = "none"
    /\ before = External

\* ------------------------------------------------------------------------
\* main(): argument resolution, validation, handshake, target directory
\* ------------------------------------------------------------------------
\* what every start of the process sets up before main() reads its input
StartProcess ==
    /\ runs' = runs + 1
    /\ prev' = [args |-> args, outcome |-> outcome, errors |-> errors]
    /\ pc' = "validate"
    /\ outcome' = "none"
    /\ exit_code' = -1
    /\ log' = <<>>
    /\ nkeys' = 0
    /\ todo' = {}
    /\ restarted' = FALSE
    /\ now' = 0
    /\ i' = 0
    /\ total' = 0 /\ created' = 0 /\ skipped' = 0 /\ errors' = 0
    /\ summary' = <<>>
    /\ sidx' = 0 /\ pidx' = 0
    /\ api_success' = 0 /\ api_failed' = 0
    /\ resp' = "none"
    /\ before' = External
    /\ UNCHANGED persistent

\* the first run: any flags and prompt answers (lines 393-407)
Launch ==
    /\ pc = "idle"
    /\ runs < MaxRuns
    /\ \E p \in Prefixes, s \in NumStrs, e \in NumStrs, k \in BOOLEAN,
          dr \in BOOLEAN, de \in BOOLEAN, dl \in BOOLEAN :
          args' = [prefix |-> p, start_num_str |-> s, end_num_str |-> e,
                   api_key |-> k, dry_run |-> dr, delete_existing |-> de,
                   delete_only |-> dl]
    /\ StartProcess

\* a completed creation run is run again over the same prefix and range,
\* with or without --dry-run
Rerun ==
    /\ pc = "done"
    /\ runs < MaxRuns
    /\ exit_code = 0
    /\ ~args.delete_only
    /\ \E dr \in BOOLEAN : args' = [args EXCEPT !.dry_run = dr]
    /\ StartProcess

\* the validation without the test of line 416
Valid_NoOrderCheck ==
    /\ args.prefix # <<>>
    /\ isdigit(args.start_num_str)
    /\ isdigit(args.end_num_str)
    /\ args.api_key

Valid ==
    /\ args.prefix # <<>>
    /\ isdigit(args.start_num_str)
    /\ isdigit(args.end_num_str)
    /\ start_num <= end_num
    /\ args.api_key

Validate ==
    /\ Running("validate")
    /\ IF Valid
       THEN /\ pc' = "handshake"
            /\ UNCHANGED <<exit_code, outcome>>
       ELSE Exit(1, "validation")
    /\ UNCHANGED <<args, runs, prev, before, log, persistent, nkeys, todo, restarted,
                   now, i, counters, summary, regvars>>

api_handshake ==
    /\ Running("handshake")
    /\ \E ok \in BOOLEAN :
          IF ok
          THEN /\ pc' = "targetdir"
               /\ UNCHANGED <<exit_code, outcome>>
          ELSE Exit(1, "handshake")
    /\ UNCHANGED <<args, runs, prev, before, log, persistent, nkeys, todo, restarted,
                   now, i, counters, summary, regvars>>

\* line 455
MakesTargetDir == ~args.dry_run

\* line 461 without its dry-run test
DeletesExisting_IgnoresDryRun == args.delete_existing

\* line 461
DeletesExisting == args.delete_existing /\ ~args.dry_run

\* lines 455-462: mkdir, the write check, and target_dir.glob("*.conf") of
\* delete_existing_configs
TargetDir ==
    /\ Running("targetdir")
    /\ IF MakesTargetDir
       THEN \E writable \in BOOLEAN :
            /\ dirExists' = TRUE
            /\ log' = Append(log, Event("mkdir", <<>>))
            /\ IF writable
               THEN /\ pc' = IF DeletesExisting THEN "delete_existing" ELSE "branch"
                    /\ UNCHANGED <<exit_code, outcome>>
               ELSE Exit(1, "unwritable")
       ELSE /\ pc' = IF DeletesExisting THEN "delete_existing" ELSE "branch"
            /\ UNCHANGED <<exit_code, outcome, log, dirExists>>
    /\ todo' = IF DeletesExisting THEN stems(files) ELSE {}
    /\ UNCHANGED <<args, runs, prev, before, files, dbExists, db, service,
                   ifaces, nkeys, restarted, now, i, counters, summary,
                   regvars>>

\* ------------------------------------------------------------------------
\* delete_existing_configs(target_dir, allowed_names=names_in_scope)
\* one record of the glob per step, in any order
\* ------------------------------------------------------------------------
\* delete_existing_configs called without allowed_names
in_allowed_names_None(conf_name) == TRUE

\* line 283: allowed_names is names_in_scope
in_allowed_names(conf_name) == conf_name \in names_in_scope

delete_existing_configs ==
    /\ Running("delete_existing")
    /\ IF todo = {}
       THEN /\ pc' = "branch"
            /\ UNCHANGED <<todo, files, log>>
       ELSE \E conf_name \in todo :
            /\ todo' = todo \ {conf_name}
            /\ pc' = "delete_existing"
            /\ IF startswith(conf_name, <<"_">>) \/ ~in_allowed_names(conf_name)
               THEN UNCHANGED <<files, log>>
               ELSE \E ok \in BOOLEAN :
                    /\ log' = Append(log, Event("unlink", conf_name))
                    /\ files' = IF ok THEN unlink(files, conf_name) ELSE files
    /\ UNCHANGED <<args, runs, prev, before, outcome, exit_code, dirExists, dbExists,
                   db, service, ifaces, nkeys, restarted, now, i, counters,
                   summary, regvars>>

\* ------------------------------------------------------------------------
\* Store cleaner
\* ------------------------------------------------------------------------
\* tables selected by  name LIKE ? OR name LIKE ? ...
Matching(patterns) == {t \in DOMAIN db : \E p \in patterns : Like(t, p)}

\* DELETE FROM every selected table; a missing store file clears nothing
Purged(patterns) ==
    IF dbExists
    THEN [t \in DOMAIN db |-> IF t \in Matching(patterns) THEN 0 ELSE db[t]]
    ELSE db

\* purge_wgdashboard_tables that deletes no rows
purge_wgdashboard_tables_Noop(pattern) == db

purge_wgdashboard_tables(pattern) == Purged({pattern})

purge_wgdashboard_tables_for(names) ==
    Purged({names[k] \o <<"%">> : k \in 1..Len(names)})

\* ------------------------------------------------------------------------
\* Interface controller
\* ------------------------------------------------------------------------
interface_running(name) == name \in ifaces

\* stop_interface: nothing if not running; wg-quick down, else ip link delete.
\* `down` is the outcome of wg-quick down; the link is gone after either command
stop_interface_log(name, down) ==
    IF ~interface_running(name) THEN <<>>
    ELSE IF down THEN <<Event("wg_quick_down", name)>>
    ELSE <<Event("wg_quick_down", name), Event("ip_link_delete", name)>>

stop_interface_ifaces(name) == ifaces \ {name}

\* one ip route delete per non-empty CIDR of peer_allowed_ips
RouteEvents(name) == <<Event("ip_route_delete", name)>>

\* ------------------------------------------------------------------------
\* --delete-only branch, lines 465-484
\* ------------------------------------------------------------------------
\* the delete-only branch without its purge of lines 470-473
PurgesForDelete_Never == FALSE

\* line 470
PurgesForDelete == ~args.dry_run

\* main() without the call of run_pre_creation_cleanup
RunsCleanup_Never == FALSE

\* line 487
RunsCleanup == ~args.dry_run

Branch ==
    /\ Running("branch")
    /\ IF args.delete_only
       THEN /\ pc' = "delete_only"
            /\ i' = 1
            /\ IF PurgesForDelete
               THEN /\ db' = purge_wgdashboard_tables_for(names_to_delete)
                    /\ log' = Append(log, Event("purge_for", <<>>))
               ELSE UNCHANGED <<db, log>>
       ELSE /\ pc' = IF RunsCleanup THEN "pre_stop" ELSE "loop"
            /\ i' = start_num
            /\ UNCHANGED <<db, log>>
    /\ UNCHANGED <<args, runs, prev, before, outcome, exit_code, dirExists, files,
                   dbExists, service, ifaces, nkeys, todo, restarted, now,
                   counters, summary, regvars>>

DeleteOnlyStep ==
    /\ Running("delete_only")
    /\ i <= Len(names_to_delete)
    /\ LET name == names_to_delete[i] IN
       IF args.dry_run
       THEN /\ i' = i + 1
            /\ UNCHANGED <<pc, exit_code, outcome, log, files, ifaces>>
       ELSE \E down \in BOOLEAN, unlinked \in BOOLEAN :
            /\ ifaces' = stop_interface_ifaces(name)
            /\ LET l1 == log \o stop_interface_log(name, down)
                            \o <<Event("ip_link_delete", name)>>
                            \o RouteEvents(name)
               IN IF ~exists(files, name)
                  THEN /\ log' = l1
                       /\ i' = i + 1
                       /\ UNCHANGED <<pc, exit_code, outcome, files>>
                  ELSE /\ log' = Append(l1, Event("unlink", name))
                       /\ IF unlinked
                          THEN /\ files' = unlink(files, name)
                               /\ i' = i + 1
                               /\ UNCHANGED <<pc, exit_code, outcome>>
                          ELSE /\ Exit(1, "unlink_raised")
                               /\ UNCHANGED <<files, i>>
    /\ UNCHANGED <<args, runs, prev, before, dirExists, dbExists, db, service, nkeys,
                   todo, restarted, now, counters, summary, regvars>>

\* the branch without its return of line 484
DeleteOnlyDone_NoReturn ==
    /\ Running("delete_only")
    /\ i > Len(names_to_delete)
    /\ pc' = IF RunsCleanup THEN "pre_stop" ELSE "loop"
    /\ i' = start_num
    /\ UNCHANGED <<args, runs, prev, before, outcome, exit_code, log,
                   persistent, nkeys, todo, restarted, now, counters, summary,
                   regvars>>

DeleteOnlyDone ==
    /\ Running("delete_only")
    /\ i > Len(names_to_delete)
    /\ Exit(0, "delete_only")
    /\ UNCHANGED <<args, runs, prev, before, log, persistent, nkeys, todo, restarted,
                   now, i, counters, summary, regvars>>

\* ------------------------------------------------------------------------
\* run_pre_creation_cleanup(db_path, service), lines 258-272
\* ------------------------------------------------------------------------
\* restart_service(service, "stop")
PreCleanupStop ==
    /\ Running("pre_stop")
    /\ \E ok \in BOOLEAN :
          /\ restarted' = ok
          /\ service' = IF ok THEN "inactive" ELSE service
    /\ log' = Append(log, Event("systemctl_stop", <<>>))
    /\ pc' = "pre_purge"
    /\ UNCHANGED <<args, runs, prev, before, outcome, exit_code, dirExists, files,
                   dbExists, db, ifaces, nkeys, todo, now, i, counters,
                   summary, regvars>>

\* purge_wgdashboard_tables(db_path) with its default pattern "APW%"
PreCleanupPurge ==
    /\ Running("pre_purge")
    /\ db' = purge_wgdashboard_tables(APW \o <<"%">>)
    /\ log' = Append(log, Event("purge_default", <<>>))
    /\ pc' = IF restarted THEN "pre_start" ELSE "loop"
    /\ UNCHANGED <<args, runs, prev, before, outcome, exit_code, dirExists, files,
                   dbExists, service, ifaces, nkeys, todo, restarted, now, i,
                   counters, summary, regvars>>

\* restart_service(service, "start"), then ensure_service_active(service)
PreCleanupStart ==
    /\ Running("pre_start")
    /\ service' = "starting"
    /\ log' = Append(log, Event("systemctl_start", <<>>))
    /\ now' = 0
    /\ pc' = "pre_poll"
    /\ UNCHANGED <<args, runs, prev, before, outcome, exit_code, dirExists, files,
                   dbExists, db, ifaces, nkeys, todo, restarted, i, counters,
                   summary, regvars>>

\* ensure_service_active whose False is not acted upon
ensure_service_active_Unchecked(timeout, after, fatal) ==
    /\ IF now < timeout
       THEN \E active \in BOOLEAN :
            IF active
            THEN /\ service' = "active"
                 /\ pc' = after
                 /\ now' = 0
            ELSE /\ now' = now + Interval
                 /\ UNCHANGED <<pc, service>>
       ELSE /\ pc' = after
            /\ now' = 0
            /\ UNCHANGED service
    /\ UNCHANGED <<args, runs, prev, before, exit_code, outcome, log,
                   dirExists, files, dbExists, db, ifaces, nkeys, todo,
                   restarted, i, counters, summary, regvars>>

\* ensure_service_active whose deadline is never reached: the waited time
\* starts again instead of arriving at the timeout
ensure_service_active_NoDeadline(timeout, after, fatal) ==
    /\ \E active \in BOOLEAN :
            IF active
            THEN /\ service' = "active"
                 /\ pc' = after
                 /\ now' = 0
                 /\ UNCHANGED <<exit_code, outcome>>
            ELSE /\ now' = (now + Interval) % timeout
                 /\ UNCHANGED <<pc, service, exit_code, outcome>>
    /\ UNCHANGED <<args, runs, prev, before, log, dirExists, files, dbExists, db,
                   ifaces, nkeys, todo, restarted, i, counters, summary,
                   regvars>>

\* ensure_service_active(name, timeout, interval): one turn of the while loop,
\* or its end.  `after` is where main() goes on when it returns True.
ensure_service_active(timeout, after, fatal) ==
    /\ IF now < timeout
       THEN \E active \in BOOLEAN :
            IF active
            THEN /\ service' = "active"
                 /\ pc' = after
                 /\ now' = 0
                 /\ UNCHANGED <<exit_code, outcome>>
            ELSE /\ now' = now + Interval
                 /\ UNCHANGED <<pc, service, exit_code, outcome>>
       ELSE /\ Exit(1, fatal)
            /\ now' = 0
            /\ UNCHANGED service
    /\ UNCHANGED <<args, runs, prev, before, log, dirExists, files, dbExists, db,
                   ifaces, nkeys, todo, restarted, i, counters, summary,
                   regvars>>

PreCleanupPoll ==
    /\ Running("pre_poll")
    /\ ensure_service_active(PreTimeout, "loop", "service_pre")

\* ------------------------------------------------------------------------
\* Creation loop, lines 494-553: one action per way an iteration can go
\* ------------------------------------------------------------------------
InLoop == Running("loop") /\ i <= end_num

filepath_exists == exists(files, config_name(i))

\* generate_keypair(): the k-th call of the run returns key pair <<run, k>>
KeyPair(k) == <<runs, k>>

\* peers_for_conf that gives every peer the interface's key pair
peers_for_conf_SharedKey ==
    [k \in 1..Len(extra_peers) |->
        [name |-> extra_peers[k].name,
         public_key |-> KeyPair(nkeys + 1),
         private_key |-> KeyPair(nkeys + 1),
         allowed_ips |-> extra_peers[k].allowed_ips]]

\* peers_for_conf when every peer key generation succeeds; the first
\* generate_keypair of the iteration is the interface's
peers_for_conf ==
    [k \in 1..Len(extra_peers) |->
        [name |-> extra_peers[k].name,
         public_key |-> KeyPair(nkeys + 1 + k),
         private_key |-> KeyPair(nkeys + 1 + k),
         allowed_ips |-> extra_peers[k].allowed_ips]]

\* create_config_text(address, listen_port, interface_privkey, extra_peers)
create_config_text(interface_privkey, peers) ==
    [PrivateKey |-> interface_privkey,
     Peers |-> [k \in 1..Len(peers) |->
                  [PublicKey |-> peers[k].public_key,
                   AllowedIPs |-> peers[k].allowed_ips]]]

\* line 502 without the test that the record exists
Skips_Never == FALSE

\* line 502 with the sense of --delete-existing inverted
Skips_WhenDeleting == filepath_exists /\ args.delete_existing

\* line 502
Skips == filepath_exists /\ ~args.delete_existing

\* the skip branch without skipped += 1
SkipExisting_Uncounted ==
    /\ InLoop
    /\ Skips
    /\ total' = total + 1
    /\ i' = i + 1
    /\ UNCHANGED <<pc, args, runs, prev, before, outcome, exit_code, log, persistent,
                   nkeys, todo, restarted, now, created, skipped, errors,
                   summary, regvars>>

SkipExisting ==
    /\ InLoop
    /\ Skips
    /\ total' = total + 1
    /\ skipped' = skipped + 1
    /\ i' = i + 1
    /\ UNCHANGED <<pc, args, runs, prev, before, outcome, exit_code, log, persistent,
                   nkeys, todo, restarted, now, created, errors, summary,
                   regvars>>

\* lines 507-512 without the try/except
InterfaceKeyFail_Uncaught ==
    /\ InLoop
    /\ ~Skips
    /\ total' = total + 1
    /\ log' = Append(log, Event("genkey_failed", config_name(i)))
    /\ Exit(1, "keygen_raised")
    /\ UNCHANGED <<args, runs, prev, before, persistent, nkeys, todo,
                   restarted, now, i, created, skipped, errors, summary,
                   regvars>>

\* the interface's generate_keypair raises CalledProcessError
InterfaceKeyFail ==
    /\ InLoop
    /\ ~Skips
    /\ total' = total + 1
    /\ errors' = errors + 1
    /\ i' = i + 1
    /\ log' = Append(log, Event("genkey_failed", config_name(i)))
    /\ UNCHANGED <<pc, args, runs, prev, before, outcome, exit_code, persistent, nkeys,
                   todo, restarted, now, created, skipped, summary, regvars>>

\* generate_keypair raises for peer number `bad`, after bad - 1 good ones
PeerKeyFail ==
    /\ InLoop
    /\ ~Skips
    /\ \E bad \in 1..Len(extra_peers) :
          /\ nkeys' = nkeys + bad
          /\ log' = log \o [k \in 1..bad |-> Event("genkey", config_name(i))]
                        \o <<Event("genkey_failed", config_name(i))>>
    /\ total' = total + 1
    /\ errors' = errors + 1
    /\ i' = i + 1
    /\ UNCHANGED <<pc, args, runs, prev, before, outcome, exit_code, persistent, todo,
                   restarted, now, created, skipped, summary, regvars>>

KeyEvents == [k \in 1..(1 + Len(extra_peers)) |-> Event("genkey", config_name(i))]

Entry == <<config_name(i), KeyPair(nkeys + 1), peers_for_conf>>

\* all keys generated, dry-run: counted as created, nothing written
DryRunCreate ==
    /\ InLoop
    /\ ~Skips
    /\ args.dry_run
    /\ nkeys' = nkeys + 1 + Len(extra_peers)
    /\ log' = log \o KeyEvents
    /\ summary' = Append(summary, Entry)
    /\ total' = total + 1
    /\ created' = created + 1
    /\ i' = i + 1
    /\ UNCHANGED <<pc, args, runs, prev, before, outcome, exit_code, persistent, todo,
                   restarted, now, skipped, errors, regvars>>

\* all keys generated, filepath.write_text and os.chmod succeed
Persist ==
    /\ InLoop
    /\ ~Skips
    /\ ~args.dry_run
    /\ nkeys' = nkeys + 1 + Len(extra_peers)
    /\ log' = log \o KeyEvents \o <<Event("write", config_name(i))>>
    /\ summary' = Append(summary, Entry)
    /\ files' = write_text(files, config_name(i),
                           create_config_text(KeyPair(nkeys + 1), peers_for_conf))
    /\ total' = total + 1
    /\ created' = created + 1
    /\ i' = i + 1
    /\ UNCHANGED <<pc, args, runs, prev, before, outcome, exit_code, dirExists,
                   dbExists, db, service, ifaces, todo, restarted, now,
                   skipped, errors, regvars>>

\* filepath.write_text raises OSError: nothing in main() catches it
PersistFail ==
    /\ InLoop
    /\ ~Skips
    /\ ~args.dry_run
    /\ nkeys' = nkeys + 1 + Len(extra_peers)
    /\ log' = log \o KeyEvents \o <<Event("write_failed", config_name(i))>>
    /\ summary' = Append(summary, Entry)
    /\ total' = total + 1
    /\ Exit(1, "write_raised")
    /\ UNCHANGED <<args, runs, prev, before, persistent, todo, restarted, now, i,
                   created, skipped, errors, regvars>>

\* line 556 without the test of the summary
Registers_IgnoresCreated == ~args.dry_run

\* line 556: the registration phase is entered or not
Registers == ~args.dry_run /\ created > 0

LoopEnd ==
    /\ Running("loop")
    /\ i > end_num
    /\ pc' = IF Registers THEN "reg_prompt" ELSE "summary"
    /\ sidx' = 1
    /\ UNCHANGED <<args, runs, prev, before, outcome, exit_code, log,
                   persistent, nkeys, todo, restarted, now, i, counters,
                   summary, pidx, api_success, api_failed, resp>>

\* ------------------------------------------------------------------------
\* Registration phase, lines 556-611
\* ------------------------------------------------------------------------
\* input("WGDashboard jetzt neustarten? (j/N): ")
RestartPrompt ==
    /\ Running("reg_prompt")
    /\ \E restart_choice \in BOOLEAN :
          IF restart_choice
          THEN /\ log' = Append(log, Event("systemctl_restart", <<>>))
               /\ service' = "starting"
               /\ now' = 0
               /\ pc' = "reg_poll"
          ELSE /\ pc' = "reg"
               /\ UNCHANGED <<log, service, now>>
    /\ UNCHANGED <<args, runs, prev, before, outcome, exit_code, dirExists, files,
                   dbExists, db, ifaces, nkeys, todo, restarted, i, counters,
                   summary, regvars>>

RestartPoll ==
    /\ Running("reg_poll")
    /\ ensure_service_active(RegTimeout, "reg", "service_reg")

\* update_wgdashboard_peer's return value for a response; "raise" when the
\* exception is none of URLError, HTTPError, JSONDecodeError
\* update_wgdashboard_peer without the except clause of line 127
update_wgdashboard_peer_NoExcept(r) ==
    CASE r = "non200" -> "False"
      [] r = "urlerror" -> "raise"
      [] r = "bad_json" -> "raise"
      [] r = "not_object" -> "raise"
      [] r = "status_true" -> "True"
      [] r = "status_false" -> "False"
      [] r = "no_status" -> "False"

\* update_wgdashboard_peer that trusts the HTTP status alone
update_wgdashboard_peer_StatusOnly(r) ==
    CASE r = "non200" -> "False"
      [] r = "urlerror" -> "False"
      [] r = "bad_json" -> "False"
      [] r = "not_object" -> "raise"
      [] r = "status_true" -> "True"
      [] r = "status_false" -> "True"
      [] r = "no_status" -> "True"

update_wgdashboard_peer(r) ==
    CASE r = "non200" -> "False"
      [] r = "urlerror" -> "False"
      [] r = "bad_json" -> "False"
      [] r = "not_object" -> "raise"
      [] r = "status_true" -> "True"
      [] r = "status_false" -> "False"
      [] r = "no_status" -> "False"

InReg == Running("reg") /\ sidx >= 1 /\ sidx <= Len(summary)

\* start_interface(config_name) of the next summarized entity
StartInterface ==
    /\ InReg
    /\ pidx = 0
    /\ LET name == summary[sidx][1]
           peers == summary[sidx][3]
       IN IF peers = <<>>
          THEN /\ sidx' = sidx + 1
               /\ UNCHANGED <<pidx, log, ifaces, api_failed>>
          ELSE IF interface_running(name)
          THEN /\ pidx' = 1
               /\ UNCHANGED <<sidx, log, ifaces, api_failed>>
          ELSE \E up \in BOOLEAN :
               /\ log' = Append(log, Event("wg_quick_up", name))
               /\ IF up
                  THEN /\ ifaces' = ifaces \cup {name}
                       /\ pidx' = 1
                       /\ UNCHANGED <<sidx, api_failed>>
                  ELSE /\ api_failed' = api_failed + Len(peers)
                       /\ sidx' = sidx + 1
                       /\ UNCHANGED <<pidx, ifaces>>
    /\ UNCHANGED <<pc, args, runs, prev, before, outcome, exit_code,
                   dirExists, files, dbExists, db, service, nkeys, todo,
                   restarted, now, i, counters, summary, api_success, resp>>

\* one update_wgdashboard_peer call and its bookkeeping, lines 586-607
PushPeer ==
    /\ InReg
    /\ pidx >= 1 /\ pidx <= Len(summary[sidx][3])
    /\ \E r \in Responses :
          LET ok == update_wgdashboard_peer(r) IN
          /\ resp' = r
          /\ log' = Append(log, Event("updatePeerSettings", summary[sidx][1]))
          /\ IF ok = "raise"
             THEN /\ Exit(1, "push_raised")
                  /\ UNCHANGED <<pidx, api_success, api_failed>>
             ELSE /\ pidx' = pidx + 1
                  /\ api_success' = IF ok = "True" THEN api_success + 1 ELSE api_success
                  /\ api_failed' = IF ok = "True" THEN api_failed ELSE api_failed + 1
                  /\ UNCHANGED <<pc, exit_code, outcome>>
    /\ UNCHANGED <<args, runs, prev, before, persistent, nkeys, todo,
                   restarted, now, i, counters, summary, sidx>>

\* stop_interface(config_name) after the entity's last peer
StopInterface ==
    /\ InReg
    /\ pidx > Len(summary[sidx][3])
    /\ \E down \in BOOLEAN :
          LET name == summary[sidx][1] IN
          /\ log' = log \o stop_interface_log(name, down)
          /\ ifaces' = stop_interface_ifaces(name)
    /\ sidx' = sidx + 1
    /\ pidx' = 0
    /\ resp' = "none"
    /\ UNCHANGED <<pc, args, runs, prev, before, outcome, exit_code,
                   dirExists, files, dbExists, db, service, nkeys, todo,
                   restarted, now, i, counters, summary, api_success,
                   api_failed>>

RegistrationDone ==
    /\ Running("reg")
    /\ sidx > Len(summary)
    /\ pc' = "summary"
    /\ UNCHANGED <<args, runs, prev, before, outcome, exit_code, log, persistent,
                   nkeys, todo, restarted, now, i, counters, summary, regvars>>

\* lines 613-643: the summary is printed and main() returns
Summary ==
    /\ Running("summary")
    /\ Exit(0, "summary")
    /\ UNCHANGED <<args, runs, prev, before, log, persistent, nkeys, todo, restarted,
                   now, i, counters, summary, regvars>>

\* one run of the program
Next ==
    \/ Launch
    \/ Validate
    \/ api_handshake
    \/ TargetDir
    \/ delete_existing_configs
    \/ Branch
    \/ DeleteOnlyStep
    \/ DeleteOnlyDone
    \/ PreCleanupStop
    \/ PreCleanupPurge
    \/ PreCleanupStart
    \/ PreCleanupPoll
    \/ SkipExisting
    \/ InterfaceKeyFail
    \/ PeerKeyFail
    \/ DryRunCreate
    \/ Persist
    \/ PersistFail
    \/ LoopEnd
    \/ RestartPrompt
    \/ RestartPoll
    \/ StartInterface
    \/ PushPeer
    \/ StopInterface
    \/ RegistrationDone
    \/ Summary

Spec == Init /\ [][Next]_vars

\* every call returns and the interpreter goes on to the next statement: a
\* run that can take a step takes one
SpecFair == Init /\ [][Next]_vars /\ WF_vars(Next)

\* the program run up to MaxRuns times in a row over the same prefix and range
NextRerun ==
    \/ Next
    \/ Rerun

SpecRerun == Init /\ [][NextRerun]_vars

\* ------------------------------------------------------------------------
\* Properties
\* ------------------------------------------------------------------------
ScopeSize == end_num - start_num + 1

\* the creation loop has run to its end
LoopFinished ==
    \/ pc = "loop" /\ i > end_num
    \/ pc \in {"reg_prompt", "reg_poll", "reg", "summary"}
    \/ pc = "done" /\ outcome \in {"summary", "service_reg", "push_raised"}

SummaryNames == {summary[k][1] : k \in 1..Len(summary)}

CountLogged(op, name) == Cardinality({k \in 1..Len(log) : log[k] = <<op, name>>})

\* C1: in dry-run mode, with or without --delete-existing and --delete-only,
\* the run makes no mutating external call and the directory, the records,
\* the store, the service and the interfaces stay as they were at its start.
C1_DryRunNeverMutates ==
    (pc # "idle" /\ args.dry_run) => (~Mutated /\ External = before)

C1_Witness ==
    /\ pc = "done" /\ outcome = "summary"
    /\ args.dry_run /\ args.delete_existing
    /\ created = 2
    /\ exists(files, APW \o <<"2">>)

\* C2: no bulk delete (--delete-existing or --delete-only), for any prefix,
\* start and end, deletes a record whose name starts with an underscore:
\* every such record present before the run is still present.
C2_UnderscoreRecordsSurvive ==
    (args.delete_existing \/ args.delete_only) =>
        \A f \in before.files :
            startswith(f[1], <<"_">>) => f[1] \in stems(files)

\* C3 as stated: a second creation run without --delete-existing over the
\* same prefix and range ends its loop with created = 0 and every name skipped.
C3_SecondRunSkipsAll ==
    (/\ runs >= 2
     /\ prev.outcome = "summary"
     /\ ~args.delete_existing
     /\ LoopFinished) => (created = 0 /\ skipped = ScopeSize)

\* C3 amended: when the first run was not a dry-run and ended its creation
\* loop without errors, a second creation run without --delete-existing over
\* the same prefix, start and end ends its loop with created = 0 and every
\* name skipped.
C3_SecondRunSkipsAllAfterCleanRun ==
    (/\ runs >= 2
     /\ prev.outcome = "summary"
     /\ ~prev.args.dry_run
     /\ prev.errors = 0
     /\ ~args.delete_existing
     /\ LoopFinished) => (created = 0 /\ skipped = ScopeSize /\ errors = 0)

C3_Witness ==
    /\ runs = 2
    /\ prev.outcome = "summary" /\ ~prev.args.dry_run /\ prev.errors = 0
    /\ ~args.delete_existing /\ ~args.dry_run
    /\ pc = "done" /\ outcome = "summary"
    /\ skipped = 2

\* C4: once the creation path has begun, a run ends either with the summary
\* or because the service did not become active after a start or restart.
C4_OnlyServiceFailureIsFatal ==
    (/\ pc = "done"
     /\ ~args.delete_only
     /\ outcome \notin {"validation", "handshake", "unwritable"})
    => outcome \in {"summary", "service_pre", "service_reg"}

\* a step of the creation loop in which a key generation failed
KeyFailStep ==
    /\ pc = "loop"
    /\ Len(log') > Len(log)
    /\ log'[Len(log')][1] = "genkey_failed"

\* C5: a failed interface or peer key generation counts its name as an error
\* exactly once, writes no record, adds no summary entry, and the loop goes on
\* with the next name; such a name is never registered.
C5_KeyFailureIsolated ==
    /\ [][KeyFailStep =>
            /\ log'[Len(log')][2] = config_name(i)
            /\ errors' = errors + 1
            /\ total' = total + 1
            /\ created' = created /\ skipped' = skipped
            /\ files' = files
            /\ summary' = summary
            /\ exit_code' = -1 /\ pc' = "loop" /\ i' = i + 1]_vars
    /\ [](\A k \in 1..Len(log) :
            log[k][1] = "genkey_failed" =>
                /\ CountLogged("genkey_failed", log[k][2]) = 1
                /\ log[k][2] \notin SummaryNames
                /\ ~LoggedFor("write", log[k][2])
                /\ ~LoggedFor("wg_quick_up", log[k][2])
                /\ ~LoggedFor("updatePeerSettings", log[k][2]))

C5_Witness ==
    /\ pc = "done" /\ outcome = "summary"
    /\ LoggedFor("genkey_failed", APW \o <<"1">>)
    /\ LoggedFor("write", APW \o <<"2">>)
    /\ LoggedFor("updatePeerSettings", APW \o <<"2">>)
    /\ errors = 1 /\ created = 1

\* a step in which update_wgdashboard_peer was called
PushStep ==
    /\ pc = "reg"
    /\ Len(log') = Len(log) + 1
    /\ log'[Len(log')][1] = "updatePeerSettings"

C7_SuccessNeedsStatusTrue ==
    [][PushStep =>
        /\ (api_success' = api_success + 1) <=> (resp' = "status_true")
        /\ (api_success' = api_success) <=> (resp' # "status_true")
        /\ resp' \in {"status_false", "no_status"} =>
              (api_failed' = api_failed + 1 /\ api_success' = api_success)]_vars

C7_Witness ==
    /\ pc = "reg"
    /\ resp = "status_false"
    /\ api_failed = 1 /\ api_success = 1

\* C8: when the service is not seen active within the deadline after the
\* pre-creation start, the run exits 1 with no entity processed; when it is
\* not seen active after the registration restart, the run exits 1 with no
\* interface started and no peer pushed.
C8_ServiceFailureIsFatal ==
    /\ (pc = "loop" /\ restarted) => service = "active"
    /\ outcome = "service_pre" =>
          /\ exit_code = 1
          /\ service # "active"
          /\ total = 0 /\ nkeys = 0 /\ summary = <<>>
          /\ ~Logged("write") /\ ~Logged("genkey")
    /\ (pc = "reg" /\ Logged("systemctl_restart")) => service = "active"
    /\ outcome = "service_reg" =>
          /\ exit_code = 1
          /\ service # "active"
          /\ ~Logged("wg_quick_up") /\ ~Logged("updatePeerSettings")
          /\ api_success = 0 /\ api_failed = 0

C8_Witness ==
    /\ pc = "done" /\ outcome = "service_reg"
    /\ restarted
    /\ created = 2

\* C9: a run that fails validation or the handshake exits 1 having made no
\* mutating call; nothing is mutated before both have passed.
C9_StartupFailuresPrecedeMutation ==
    /\ outcome \in {"validation", "handshake"} =>
          (exit_code = 1 /\ ~Mutated /\ External = before)
    /\ (Mutated \/ pc \in {"handshake", "targetdir"}) =>
          /\ args.prefix # <<>>
          /\ isdigit(args.start_num_str) /\ isdigit(args.end_num_str)
          /\ int(args.start_num_str) <= int(args.end_num_str)
          /\ args.api_key
    /\ Mutated => pc \notin {"idle", "validate", "handshake"}

C9_Witness ==
    /\ pc = "done" /\ outcome = "handshake"
    /\ ~args.dry_run /\ args.delete_existing /\ args.delete_only
    /\ ~dirExists

\* C10: a --delete-only run generates no key, writes no record, never stops,
\* starts or restarts the service, never purges the default pattern, starts
\* no interface and pushes no peer, and returns with status 0 when its delete
\* loop is over.
C10_DeleteOnlyExcludesCreation ==
    args.delete_only =>
        /\ nkeys = 0 /\ total = 0 /\ created = 0 /\ summary = <<>>
        /\ \A k \in 1..Len(log) :
              log[k][1] \in {"mkdir", "unlink", "purge_for", "wg_quick_down",
                             "ip_link_delete", "ip_route_delete"}
        /\ pc \notin {"pre_stop", "pre_purge", "pre_start", "pre_poll", "loop",
                      "reg_prompt", "reg_poll", "reg", "summary"}
        /\ outcome = "delete_only" =>
              (exit_code = 0 /\ i = Len(names_to_delete) + 1)
        /\ pc = "done" =>
              outcome \in {"validation", "handshake", "unwritable",
                           "unlink_raised", "delete_only"}

C10_Witness ==
    /\ pc = "done" /\ outcome = "delete_only" /\ exit_code = 0
    /\ ~args.dry_run
    /\ LoggedFor("unlink", APW \o <<"2">>)
    /\ ~exists(files, APW \o <<"2">>)

\* the run has passed validation, so the name set is defined
ScopeKnown == pc \notin {"idle", "validate"} /\ outcome # "validation"

\* the calls that remove a record, stop or delete an interface, or delete
\* its routes
RemovalOps == {"unlink", "wg_quick_down", "ip_link_delete", "ip_route_delete"}

\* C11: in a run with --delete-existing or --delete-only, every removal of a
\* record and every stop or deletion of an interface or of its routes names
\* a member of the name set; a record whose stem is outside the name set is
\* present, with the same content, exactly when it was before the run, and
\* an interface outside the name set runs exactly when it did before.
C11_DeletionStaysInScope ==
    (ScopeKnown /\ (args.delete_existing \/ args.delete_only)) =>
        /\ \A k \in 1..Len(log) :
              log[k][1] \in RemovalOps => log[k][2] \in names_in_scope
        /\ {f \in files : f[1] \notin names_in_scope}
              = {f \in before.files : f[1] \notin names_in_scope}
        /\ ifaces \ names_in_scope = before.ifaces \ names_in_scope

C11_Witness ==
    /\ pc = "done" /\ outcome = "delete_only"
    /\ ~args.dry_run
    /\ names_in_scope = {UA \o <<"1">>}
    /\ LoggedFor("unlink", UA \o <<"1">>)
    /\ LoggedFor("ip_link_delete", UA \o <<"1">>)
    /\ ~exists(files, UA \o <<"1">>)
    /\ <<APW \o <<"2">>, Manual>> \in files
    /\ APW \o <<"2">> \in ifaces

\* an iteration of the creation loop that took the skip branch
SkipStep == pc = "loop" /\ skipped' = skipped + 1

\* the in-scope records that were there when the run began
ExistingInScope == {f \in before.files : f[1] \in names_in_scope}

\* C12: in a creation run without --delete-existing, a name whose record
\* exists is counted as skipped in one step that generates no key, makes no
\* call, adds no summary entry and leaves the records alone; the record keeps
\* its content, and the name is never given a key, written, summarized,
\* started or pushed.
C12_SkipLeavesRecordAlone ==
    /\ [][SkipStep =>
            /\ exists(files, config_name(i))
            /\ ~args.delete_existing
            /\ total' = total + 1
            /\ created' = created /\ errors' = errors
            /\ files' = files
            /\ nkeys' = nkeys
            /\ log' = log
            /\ summary' = summary
            /\ i' = i + 1 /\ pc' = "loop"]_vars
    /\ []((ScopeKnown /\ ~args.delete_only /\ ~args.delete_existing) =>
            /\ \A f \in ExistingInScope :
                  /\ f \in files
                  /\ f[1] \notin SummaryNames
                  /\ \A op \in {"genkey", "genkey_failed", "write",
                                 "write_failed", "wg_quick_up",
                                 "updatePeerSettings"} : ~LoggedFor(op, f[1])
            /\ LoopFinished => skipped = Cardinality(ExistingInScope))

C12_Witness ==
    /\ pc = "done" /\ outcome = "summary"
    /\ ~args.dry_run /\ ~args.delete_existing
    /\ skipped = 1 /\ created = 1
    /\ <<APW \o <<"2">>, Manual>> \in files
    /\ SummaryNames = {APW \o <<"1">>}
    /\ LoggedFor("updatePeerSettings", APW \o <<"1">>)

\* the run is in its registration phase or has made one of its calls
InRegistration ==
    \/ pc \in {"reg_prompt", "reg_poll", "reg"}
    \/ Logged("systemctl_restart")
    \/ Logged("wg_quick_up")
    \/ Logged("updatePeerSettings")

\* C13: the restart prompt, an interface start and an update of a peer happen
\* only in a creation run that is not a dry-run, after the creation loop has
\* handled every name of the range, and with created >= 1.
C13_RegistrationOnlyAfterLoop ==
    InRegistration =>
        /\ ~args.dry_run /\ ~args.delete_only
        /\ created >= 1
        /\ Len(summary) = created
        /\ i = end_num + 1
        /\ total = ScopeSize
        /\ pc \notin {"loop", "pre_stop", "pre_purge", "pre_start", "pre_poll"}

C13_Witness ==
    /\ pc = "reg"
    /\ Logged("systemctl_restart")
    /\ LoggedFor("wg_quick_up", APW \o <<"1">>)
    /\ LoggedFor("updatePeerSettings", APW \o <<"1">>)
    /\ created = 1 /\ errors = 1

\* the name set has end - start + 1 members; the name of index n is the
\* prefix followed by n written in decimal and zero-padded to w digits; the
\* delete list and every call of the run name members of the set
ScopeHasWidth(w) ==
    /\ Cardinality(names_in_scope) = end_num - start_num + 1
    /\ Len(names_to_delete) = end_num - start_num + 1
    /\ \A n \in start_num..end_num :
          LET name == config_name(n)
              number == SubSeq(name, Len(args.prefix) + 1, Len(name))
          IN /\ name \in names_in_scope
             /\ names_to_delete[n - start_num + 1] = name
             /\ startswith(name, args.prefix)
             /\ Len(number) = w
             /\ isdigit(number)
             /\ int(number) = n
    /\ \A k \in 1..Len(log) : log[k][2] # <<>> => log[k][2] \in names_in_scope
    /\ SummaryNames \subseteq names_in_scope

\* C14 as stated: the width is max(len(str(start)), len(str(end))) whether
\* start and end come from flags or from the prompt.
C14_WidthOfValues ==
    ScopeKnown => ScopeHasWidth(Max(Len(str(start_num)), Len(str(end_num))))

\* C14 amended: for start <= end the name set has end - start + 1 members,
\* each the prefix plus the zero-padded index, all padded to the width
\* max(len(start as given), len(end as given)), where a flag is given as
\* str(int) and a prompt answer as it was typed.
C14_WidthOfInputs ==
    ScopeKnown =>
        ScopeHasWidth(Max(Len(args.start_num_str), Len(args.end_num_str)))

C14_Witness ==
    /\ pc = "done" /\ outcome = "summary"
    /\ args.start_num_str = <<"0", "1">> /\ args.end_num_str = <<"2">>
    /\ names_in_scope = {APW \o <<"0", "1">>, APW \o <<"0", "2">>}
    /\ LoggedFor("write", APW \o <<"0", "1">>)
    /\ LoggedFor("write", APW \o <<"0", "2">>)

\* the record a successful iteration of this run writes for a name
WrittenThisRun(name) ==
    \E f \in files :
        /\ f[1] = name
        /\ f[2].PrivateKey[1] = runs
        /\ Len(f[2].Peers) = Len(extra_peers)

\* C15: in a creation run that is not a dry-run, in which no key generation
\* failed and in which no record of the range existed beforehand or
\* --delete-existing is set, the end of the creation loop finds one record
\* for every name of the range, written by this run, and created =
\* end - start + 1, skipped = 0, errors = 0.
C15_CompleteCreation ==
    (/\ LoopFinished
     /\ ~args.dry_run
     /\ ~Logged("genkey_failed")
     /\ (args.delete_existing \/ ExistingInScope = {})) =>
        /\ created = ScopeSize /\ skipped = 0 /\ errors = 0
        /\ total = ScopeSize
        /\ \A name \in names_in_scope :
              /\ WrittenThisRun(name)
              /\ Cardinality({f \in files : f[1] = name}) = 1
              /\ CountLogged("write", name) = 1

C15_Witness ==
    /\ pc = "loop" /\ i > end_num
    /\ ~args.dry_run /\ args.delete_existing
    /\ restarted
    /\ ExistingInScope = {<<APW \o <<"2">>, Manual>>}
    /\ created = 2
    /\ WrittenThisRun(APW \o <<"1">>) /\ WrittenThisRun(APW \o <<"2">>)

\* the key slots of the summarized entities: <<k, 0>> is the interface of
\* the k-th entity, <<k, j>> its j-th peer
Slots ==
    {<<k, 0>> : k \in 1..Len(summary)} \cup
    {<<k, j>> : k \in 1..Len(summary), j \in 1..Len(extra_peers)}

KeyOf(slot) == IF slot[2] = 0 THEN summary[slot[1]][2]
               ELSE summary[slot[1]][3][slot[2]].public_key

\* the key pairs generate_keypair has returned in this run
Generated == {KeyPair(k) : k \in 1..nkeys}

\* C16: the interface and every peer of every entity hold a key pair that a
\* generate_keypair call of this run returned; no two slots hold the same
\* key pair; a peer's private and public key come from one call; the
\* template's configured public key is in no slot and in no record written.
C16_KeysAreFresh ==
    /\ \A s \in Slots :
          /\ KeyOf(s) \in Generated
          /\ KeyOf(s) # "configured"
          /\ \A t \in Slots : s # t => KeyOf(s) # KeyOf(t)
    /\ \A k \in 1..Len(summary) :
          /\ Len(summary[k][3]) = Len(extra_peers)
          /\ \A j \in 1..Len(extra_peers) :
                summary[k][3][j].private_key = summary[k][3][j].public_key
          /\ LoggedFor("write", summary[k][1]) =>
                <<summary[k][1],
                  create_config_text(summary[k][2], summary[k][3])>> \in files
    /\ Cardinality(Slots) <= nkeys

C16_Witness ==
    /\ pc = "done" /\ outcome = "summary"
    /\ ~args.dry_run
    /\ Len(summary) = 2
    /\ ~Logged("genkey_failed")
    /\ nkeys = 2 * (1 + Len(extra_peers))
    /\ KeyOf(<<2, Len(extra_peers)>>) = KeyPair(nkeys)

\* C17: after the purge with the names of the range as prefixes, a table is
\* empty exactly when it was empty before or its name starts, character for
\* character, with one of the names; the set of tables is unchanged.
C17_PurgeMatchesLiterally ==
    (args.delete_only /\ Logged("purge_for")) =>
        /\ DOMAIN db = DOMAIN before.db
        /\ \A t \in DOMAIN db :
              (db[t] = 0) <=>
                  \/ before.db[t] = 0
                  \/ \E k \in 1..Len(names_to_delete) :
                        startswith(t, names_to_delete[k])

\* the deadline of the poll the run is in
Deadline == IF pc = "pre_poll" THEN PreTimeout ELSE RegTimeout

\* a step of ensure_service_active
PollStep == pc \in {"pre_poll", "reg_poll"}

\* C18: every run ends, with exit status 0 or 1; the time waited in a poll
\* of the service never passes its deadline; a poll that finds the service
\* active returns True at once, a poll that does not waits one interval, and
\* at the deadline the function returns False, which ends the run.
C18_NoInfiniteWaits ==
    /\ <>(pc = "done" /\ exit_code \in {0, 1})
    /\ [](PollStep => now <= Deadline)
    /\ [][PollStep =>
            \/ /\ now < Deadline
               /\ service' = "active"
               /\ pc' = IF pc = "pre_poll" THEN "loop" ELSE "reg"
               /\ exit_code' = -1
            \/ /\ now < Deadline
               /\ service' = service /\ service # "active"
               /\ now' = now + Interval
               /\ pc' = pc
            \/ /\ now >= Deadline
               /\ service' = service
               /\ pc' = "done" /\ exit_code' = 1]_vars

C18_Witness ==
    /\ pc = "pre_poll"
    /\ now = PreTimeout
    /\ service = "starting"
    /\ Logged("systemctl_start")

\* the registration loop of lines 575-609 has been entered
InRegLoop ==
    /\ Registers /\ ~args.delete_only
    /\ \/ pc \in {"reg", "summary"}
       \/ pc = "done" /\ outcome \in {"summary", "push_raised"}

\* the calls the registration loop makes for an entity, in the order of the
\* loop body
RegRank(op) == CASE op = "wg_quick_up" -> 1
                 [] op = "updatePeerSettings" -> 2
                 [] op = "wg_quick_down" -> 3
                 [] op = "ip_link_delete" -> 4
                 [] OTHER -> 0

RegCalls == {k \in 1..Len(log) : RegRank(log[k][1]) > 0}

EntityOf(name) == CHOOSE k \in 1..Len(summary) : summary[k][1] = name

Pushes(k) == CountLogged("updatePeerSettings", summary[k][1])

\* the calls of one entity precede those of the next, and within an entity
\* the start precedes the updates and the updates precede the stop
RegistrationInOrder ==
    /\ \A a \in RegCalls : log[a][2] \in SummaryNames
    /\ \A a \in RegCalls, b \in RegCalls :
          a < b =>
              \/ EntityOf(log[a][2]) < EntityOf(log[b][2])
              \/ /\ EntityOf(log[a][2]) = EntityOf(log[b][2])
                 /\ RegRank(log[a][1]) <= RegRank(log[b][1])
    /\ \A k \in 1..Len(summary) :
          LET name == summary[k][1]
              peers == summary[k][3]
          IN /\ CountLogged("wg_quick_up", name) <= 1
             /\ Pushes(k) <= Len(peers)
             \* an entity the loop has left: start failed and nothing
             \* pushed, or every peer pushed once and the interface stopped
             /\ k < sidx =>
                   /\ Pushes(k) \in {0, Len(peers)}
                   /\ Pushes(k) = 0 => LoggedFor("wg_quick_up", name)
                   /\ name \notin ifaces
             \* the entity the loop is at
             /\ (k = sidx /\ pidx = 0) =>
                   (Pushes(k) = 0 /\ ~LoggedFor("wg_quick_up", name))
             /\ (k = sidx /\ pidx >= 1) =>
                   (name \in ifaces /\ Pushes(k) >= pidx - 1 /\ Pushes(k) <= pidx)
             \* an entity the loop has not come to
             /\ k > sidx =>
                   (Pushes(k) = 0 /\ ~LoggedFor("wg_quick_up", name))

\* C19: the registration loop handles the summarized entities in order,
\* start first, then one update per peer, then the stop, before the next
\* entity's start; a failed start leaves the entity without an update; and
\* every entity whose start succeeded has had each peer pushed once and its
\* interface stopped when the phase is over.
C19_RegistrationOrdering ==
    InRegLoop =>
        /\ RegistrationInOrder
        /\ pc \in {"summary", "done"} => sidx > Len(summary)

\* the calls of run_pre_creation_cleanup, as they stand in the log
IsCleanupCall(e) ==
    e[1] \in {"systemctl_stop", "purge_default", "systemctl_start"}

CleanupCalls == SelectSeq(log, IsCleanupCall)

StopPurgeStart == <<Event("systemctl_stop", <<>>), Event("purge_default", <<>>),
                    Event("systemctl_start", <<>>)>>

StopPurge == <<Event("systemctl_stop", <<>>), Event("purge_default", <<>>)>>

\* the creation loop has begun
CreationBegun ==
    /\ ~args.delete_only
    /\ pc = "loop" \/ LoopFinished \/ outcome = "write_raised"

\* no call of the creation loop or of the registration phase precedes a
\* call of the cleanup
CleanupComesFirst ==
    \A a \in 1..Len(log), b \in 1..Len(log) :
        (/\ IsCleanupCall(log[b])
         /\ log[a][1] \in {"genkey", "genkey_failed", "write", "write_failed",
                           "systemctl_restart", "wg_quick_up",
                           "updatePeerSettings"}) => b < a

\* C20 as stated: when the creation loop of a non-dry-run has begun, the
\* cleanup has made its calls once, in the order stop, purge, start, before
\* any entity, and the loop was entered from the poll that saw the service
\* active.
C20_CleanupPollsBeforeLoop ==
    (CreationBegun /\ ~args.dry_run) =>
        /\ CleanupCalls = StopPurgeStart
        /\ CleanupComesFirst
        /\ restarted

\* C20 amended: when the creation loop of a non-dry-run has begun, the
\* cleanup has run once before any entity: stop, purge and, if the stop
\* command succeeded, start and a poll, after which the service is active
\* when the loop begins; if the stop command failed, stop and purge only.
\* While the cleanup runs no entity has been processed.
C20_CleanupBeforeLoop ==
    /\ (CreationBegun /\ ~args.dry_run) =>
          /\ CleanupComesFirst
          /\ CleanupCalls = IF restarted THEN StopPurgeStart ELSE StopPurge
          /\ (restarted /\ pc = "loop") => service = "active"
    /\ pc \in {"pre_stop", "pre_purge", "pre_start", "pre_poll"} =>
          /\ ~args.dry_run /\ ~args.delete_only
          /\ total = 0 /\ nkeys = 0 /\ summary = <<>>
          /\ CleanupCalls = CASE pc = "pre_stop" -> <<>>
                               [] pc = "pre_purge" -> SubSeq(StopPurge, 1, 1)
                               [] pc = "pre_start" -> StopPurge
                               [] pc = "pre_poll" -> StopPurgeStart
          /\ pc \in {"pre_start", "pre_poll"} => restarted
    /\ (CreationBegun /\ args.dry_run) => CleanupCalls = <<>>

C20_Witness ==
    /\ pc = "loop" /\ i = end_num
    /\ ~args.dry_run
    /\ restarted /\ service = "active"
    /\ CleanupCalls = StopPurgeStart
    /\ created = 1
    /\ db[APW \o <<"1">>] = 0

\* the calls of the delete-only loop for one name, in the order of
\* delete_interface_and_routes and lines 480-481
DeleteRank(op) == CASE op = "wg_quick_down" -> 1
                    [] op = "ip_link_delete" -> 2
                    [] op = "ip_route_delete" -> 3
                    [] op = "unlink" -> 4
                    [] OTHER -> 0

DeleteCalls == {k \in 1..Len(log) : DeleteRank(log[k][1]) > 0}

IndexOf(name) == CHOOSE k \in 1..Len(names_to_delete) : names_to_delete[k] = name

\* the purge of the store is called before any interface is stopped; the
\* calls for one name come in the order stop, link deletion, route deletion,
\* record deletion; the names are handled in ascending order; a name without
\* a record has its interface stopped and its link and routes deleted, no
\* unlink is called for it, and the loop goes on
DeleteOnlyInOrder ==
    /\ \A a \in DeleteCalls :
          /\ log[a][2] \in names_in_scope
          /\ \E p \in 1..(a - 1) : log[p][1] = "purge_for"
    /\ CountLogged("purge_for", <<>>) <= 1
    /\ \A a \in DeleteCalls, b \in DeleteCalls :
          a < b =>
              \/ IndexOf(log[a][2]) < IndexOf(log[b][2])
              \/ /\ log[a][2] = log[b][2]
                 /\ DeleteRank(log[a][1]) <= DeleteRank(log[b][1])
    /\ pc \in {"delete_only", "done"} =>
          \A k \in 1..Len(names_to_delete) :
              LET name == names_to_delete[k] IN
              /\ k < i =>
                    /\ CountLogged("ip_link_delete", name) >= 1
                    /\ CountLogged("ip_route_delete", name) = 1
                    /\ name \notin ifaces
                    /\ ~exists(files, name)
                    /\ LoggedFor("unlink", name) <=> exists(before.files, name)
              /\ k > i => \A op \in RemovalOps : ~LoggedFor(op, name)
    /\ outcome = "delete_only" => i = Len(names_to_delete) + 1

\* C21 as stated: every --delete-only run that is not a dry-run purges,
\* then stops and deletes the interface and routes, then deletes the record,
\* name by name in ascending order.
C21_DeleteOnlyOrdering ==
    (ScopeKnown /\ args.delete_only /\ ~args.dry_run) => DeleteOnlyInOrder

\* C21 amended: the same for a --delete-only run that is not a dry-run and
\* is not given --delete-existing.
C21_DeleteOnlyOrderingAlone ==
    (ScopeKnown /\ args.delete_only /\ ~args.dry_run /\ ~args.delete_existing)
        => DeleteOnlyInOrder

C21_Witness ==
    /\ pc = "done" /\ outcome = "delete_only"
    /\ ~args.dry_run /\ ~args.delete_existing
    /\ names_in_scope = {APW \o <<"1">>, APW \o <<"2">>}
    /\ Logged("purge_for")
    /\ LoggedFor("ip_route_delete", APW \o <<"1">>)
    /\ ~LoggedFor("unlink", APW \o <<"1">>)
    /\ LoggedFor("wg_quick_down", APW \o <<"2">>)
    /\ LoggedFor("unlink", APW \o <<"2">>)
    /\ db[APW \o <<"2">>] = 0

\* the index a summarized name was made from
NumberOf(name) == int(SubSeq(name, Len(args.prefix) + 1, Len(name)))

\* C22: between the iterations of the creation loop and after it, total =
\* created + skipped + errors, total counts the iterations done, the summary
\* has one entry per created entity, its names are in ascending index order
\* and none appears twice; when the loop has ended total = end - start + 1.
C22_CountersAddUp ==
    (~args.delete_only /\ (Running("loop") \/ LoopFinished)) =>
        /\ total = created + skipped + errors
        /\ total = i - start_num
        /\ Len(summary) = created
        /\ \A a \in 1..Len(summary), b \in 1..Len(summary) :
              a < b => /\ summary[a][1] # summary[b][1]
                       /\ NumberOf(summary[a][1]) < NumberOf(summary[b][1])
        /\ \A a \in 1..Len(summary) :
              /\ NumberOf(summary[a][1]) \in start_num..(i - 1)
              /\ summary[a][1] = config_name(NumberOf(summary[a][1]))
        /\ LoopFinished => total = end_num - start_num + 1

C22_Witness ==
    /\ pc = "loop" /\ i > end_num
    /\ total = 2
    /\ created = 1 /\ errors = 1 /\ skipped = 0
    /\ Len(summary) = 1

\* a creation run, not a dry-run and without --delete-existing, whose loop
\* has ended with every name of the range skipped
AllSkipped ==
    /\ LoopFinished
    /\ ~args.dry_run /\ ~args.delete_existing
    /\ skipped = ScopeSize

\* C23 as stated: such a run leaves the rows of every table, every record
\* and the state of the service as they were before the run.
C23_AllSkippedLeavesStore ==
    AllSkipped =>
        /\ db = before.db
        /\ files = before.files
        /\ service = before.service

\* C23 amended: such a run leaves every record and every interface as they
\* were, generates no key and registers nothing, and leaves the rows of the
\* tables that do not match the default pattern APW% as they were; the
\* tables that match it are empty, and the service has been stopped and, if
\* the stop command succeeded, started again and seen active.
C23_AllSkippedPurgesDefault ==
    AllSkipped =>
        /\ files = before.files
        /\ ifaces = before.ifaces
        /\ nkeys = 0 /\ summary = <<>> /\ created = 0
        /\ ~InRegistration
        /\ \A t \in DOMAIN db :
              db[t] = IF Like(t, APW \o <<"%">>) THEN 0 ELSE before.db[t]
        /\ CleanupCalls = IF restarted THEN StopPurgeStart ELSE StopPurge
        /\ service = IF restarted THEN "active" ELSE before.service

C23_Witness ==
    /\ pc = "done" /\ outcome = "summary"
    /\ ~args.dry_run /\ ~args.delete_existing
    /\ args.prefix = UA
    /\ skipped = 1 /\ total = 1
    /\ restarted
    /\ before.db[APW \o <<"1">>] = 1 /\ db[APW \o <<"1">>] = 0
    /\ db[UA \o <<"1">>] = 1

\* a table named like an entity of the run's prefix, <prefix><digits>,
\* that is not a name of the range
EntityOutsideScope(t) ==
    /\ startswith(t, args.prefix)
    /\ isdigit(SubSeq(t, Len(args.prefix) + 1, Len(t)))
    /\ t \notin names_in_scope

\* C24: a --delete-only run leaves the rows of every table that is named
\* like an entity of the same prefix outside the range.
C24_DeleteOnlyKeepsOtherEntities ==
    (ScopeKnown /\ args.delete_only) =>
        \A t \in DOMAIN db : EntityOutsideScope(t) => db[t] = before.db[t]

====
